---- MODULE Spec2Model ----
(***************************************************************************)
(* Render state machine of webgpu-playground.                              *)
(*                                                                         *)
(* State (state.rs) owns the surface, its SurfaceConfiguration, the window *)
(* size, the background colour and the camera.  Rotation (instances.rs,    *)
(* rotator.rs) and DepthView (depth_view.rs) are components whose owner is *)
(* not part of the sources at hand: the way the owner wires them into      *)
(* new / update / resize / render, the depth buffer they depend on, the    *)
(* camera module and the host's handling of a failed render are modelled   *)
(* from the specification and kept in definitions of their own.            *)
(*                                                                         *)
(* Matrices are modelled as words over elementary rotations: the product   *)
(* is concatenation, the identity is the empty word (floating point        *)
(* rounding is not modelled).  Colour channels are kept in halves          *)
(* (channel value = field / 2) at cursor positions where cos and sin are   *)
(* exact.                                                                  *)
(***************************************************************************)
EXTENDS Integers, Sequences, FiniteSets, TLC

VARIABLES size, config, surface, background_color, camera, rotation,
          depth_texture, depth_view, instances, updates, last_cursor, pc, last

\* last_cursor is a history variable: the position of the most recent
\* CursorMoved event given to input, (0, 0) before any; last is one too: what the
\* most recent call did
vars == <<size, config, surface, background_color, camera, rotation,
          depth_texture, depth_view, instances, updates, last_cursor, pc, last>>

(***************************************************************************)
(* Bounds of the model.                                                    *)
(***************************************************************************)
\* update() is called at most MaxUpdates times (the accumulated rotation grows by one step per call)
MaxUpdates == 3
\* number of distinct handles the device hands out for depth textures before reusing one
NumTextureIds == 3

(***************************************************************************)
(* Inputs.                                                                 *)
(***************************************************************************)
\* widths and heights a resize request may carry
Dims == {0, 600, 800, 8193}

\* inner sizes of the window at construction
InitSizes == {<<800, 600>>, <<600, 800>>}

\* cursor positions: x and y multiples of 64 with x + y a multiple of 128
Positions == {<<0, 0>>, <<64, 64>>, <<128, 0>>, <<64, 192>>}

NoEvent == [kind |-> "None", x |-> 0, y |-> 0, pressed |-> FALSE]

CursorMoved(p) == [kind |-> "CursorMoved", x |-> p[1], y |-> p[2], pressed |-> FALSE]

KeyboardInput(down) == [kind |-> "KeyboardInput", x |-> 0, y |-> 0, pressed |-> down]

Focused == [kind |-> "Focused", x |-> 0, y |-> 0, pressed |-> FALSE]

WindowEvents == {CursorMoved(p) : p \in Positions}
                  \cup {KeyboardInput(d) : d \in BOOLEAN} \cup {Focused}

\* outcomes of surface.get_current_texture()
SurfaceErrors == {"Lost", "Outdated", "Timeout", "OutOfMemory"}

AcquireOutcomes == {"Ok"} \cup SurfaceErrors

(***************************************************************************)
(* Matrices.                                                               *)
(***************************************************************************)
Identity == <<>>

MatMul(a, b) == a \o b

from_angle_x(deg10) == <<[axis |-> "x", deg10 |-> deg10]>>

from_angle_y(deg10) == <<[axis |-> "y", deg10 |-> deg10]>>

\* tenths of a degree of the two per-tick rotations
XStepDeg10 == 10
YStepDeg10 == 8

RotationStep == MatMul(from_angle_x(XStepDeg10), from_angle_y(YStepDeg10))

\* PodMatrix / RotatorUniform: the matrix as the 4x4 array handed to the GPU
PodMatrix(m) == [m |-> m]

RotationNew ==
  [step |-> RotationStep,
   rotation |-> Identity,
   rotation_uniform |-> PodMatrix(Identity),
   buffer |-> PodMatrix(Identity),
   buffer_object |-> "Rotator Buffer",
   bind_group |-> "rotator_bind_group"]

\* update that leaves out queue.write_buffer
RotationUpdateWithoutWrite(r) ==
  LET rot == MatMul(r.rotation, r.step)
  IN [r EXCEPT !.rotation = rot, !.rotation_uniform = PodMatrix(rot)]

\* update that stores the step instead of accumulating it
RotationUpdateOverwrites(r) ==
  [r EXCEPT !.rotation = r.step,
            !.rotation_uniform = PodMatrix(r.step),
            !.buffer = PodMatrix(r.step)]

RotationUpdate(r) ==
  LET rot == MatMul(r.rotation, r.step)
      rotation_uniform == PodMatrix(rot)
  IN [r EXCEPT !.rotation = rot,
               !.rotation_uniform = rotation_uniform,
               !.buffer = rotation_uniform]

(***************************************************************************)
(* Instances.                                                              *)
(***************************************************************************)
from_translation(x, y, z) == <<[translation |-> <<x, y, z>>]>>

\* per_row, per_col, dx, dy of Instances::new
PerRow == 4
PerCol == 4
Dx == 2
Dy == 2

\* the inner loop, for j in 0..per_col, of row i: one push per column
RECURSIVE PushColumns(_, _, _)
PushColumns(transformations, i, j) ==
  IF j >= PerCol
  THEN transformations
  ELSE LET x == (j - PerRow \div 2) * Dx
           y == (i - PerCol \div 2) * Dy
       IN PushColumns(Append(transformations, from_translation(x, y, 0)), i, j + 1)

\* an outer loop over 0..per_row, the last row excluded
RECURSIVE PushRowsExclusive(_, _)
PushRowsExclusive(transformations, i) ==
  IF i >= PerRow
  THEN transformations
  ELSE PushRowsExclusive(PushColumns(transformations, i, 0), i + 1)

\* the outer loop, for i in 0..=per_row
RECURSIVE PushRows(_, _)
PushRows(transformations, i) ==
  IF i > PerRow
  THEN transformations
  ELSE PushRows(PushColumns(transformations, i, 0), i + 1)

InstancesNew ==
  LET transformations == PushRows(<<>>, 0)
  IN [step |-> RotationStep,
      transformations |-> transformations,
      buffer |-> [k \in 1..Len(transformations) |-> PodMatrix(transformations[k])]]

count(inst) == Len(inst.transformations)

(***************************************************************************)
(* Background colour.                                                      *)
(***************************************************************************)
\* cos(n * PI / 2)
CosQuarter(n) == CASE n % 4 = 0 -> 1
                   [] n % 4 = 2 -> -1
                   [] OTHER -> 0

\* sin(n * PI / 2)
SinQuarter(n) == CosQuarter(n + 3)

\* channels in halves: r = (cos(x PI/128) + 1) / 2 is stored as cos(x PI/128) + 1
position_to_color(x, y) ==
  [r |-> CosQuarter(x \div 64) + 1,
   g |-> SinQuarter(y \div 64) + 1,
   b |-> CosQuarter((x + y) \div 128) + 1,
   a |-> 2]

(***************************************************************************)
(* Camera (module camera).                                                 *)
(***************************************************************************)
CameraUniform(eye) == [view_proj |-> eye]

CameraNew ==
  [controller |-> [is_forward_pressed |-> FALSE],
   eye |-> 0,
   uniform |-> CameraUniform(0),
   buffer |-> CameraUniform(0)]

\* controller.process_events: <<controller', consumed>>
process_events(controller, event) ==
  IF event.kind = "KeyboardInput"
  THEN <<[controller EXCEPT !.is_forward_pressed = event.pressed], TRUE>>
  ELSE <<controller, FALSE>>

CameraUpdate(c) ==
  LET eye == IF c.controller.is_forward_pressed THEN c.eye + 1 ELSE c.eye
  IN [c EXCEPT !.eye = eye,
               !.uniform = CameraUniform(eye),
               !.buffer = CameraUniform(eye)]

(***************************************************************************)
(* Depth buffer and depth overlay.                                         *)
(***************************************************************************)
\* a depth texture created for the given configuration under a fresh handle
CreateDepthTexture(id, cfg) == [id |-> id, width |-> cfg.width, height |-> cfg.height]

NextTextureId(id) == (id + 1) % NumTextureIds

\* DepthView::create_bind_group: the bind group holds the view of the texture it was built from
create_bind_group(tex) == [texture |-> tex.id]

DepthViewNew(tex) == [tag |-> "Enabled", depth_texture_bind_group |-> create_bind_group(tex)]

\* set_depth_texture that keeps the bind group it has
set_depth_texture_keeps(dv, tex) == dv

set_depth_texture(dv, tex) ==
  [dv EXCEPT !.depth_texture_bind_group = create_bind_group(tex)]

\* a resize that leaves the depth buffer as it is
KeepDepthBuffer(cfg) == UNCHANGED <<depth_texture, depth_view>>

\* the owner's reaction to an accepted resize: a new depth texture for the new
\* configuration, and the overlay's bind group rebuilt against it
RecreateDepthBuffer(cfg) ==
  LET tex == CreateDepthTexture(NextTextureId(depth_texture.id), cfg)
  IN /\ depth_texture' = tex
     /\ depth_view' = IF depth_view.tag = "Enabled"
                      THEN set_depth_texture(depth_view, tex)
                      ELSE depth_view

(***************************************************************************)
(* Render passes.                                                          *)
(***************************************************************************)
NumIndices == 36

\* a main pass that clears to the colour State::new starts with
MainPassInitialClear ==
  [label |-> "Render Pass",
   load |-> "Clear",
   clear_color |-> position_to_color(0, 0),
   depth_stencil_attachment |-> "None",
   bind_groups |-> <<"diffuse_bind_group", "camera_bind_group">>,
   depth_read |-> -1,
   draw |-> [indexed |-> TRUE, count |-> NumIndices, instances |-> 1]]

\* the pass State::render records
MainPass ==
  [label |-> "Render Pass",
   load |-> "Clear",
   clear_color |-> background_color,
   depth_stencil_attachment |-> "None",
   bind_groups |-> <<"diffuse_bind_group", "camera_bind_group">>,
   depth_read |-> -1,
   draw |-> [indexed |-> TRUE, count |-> NumIndices, instances |-> 1]]

OverlayVertices == 3

\* the pass DepthView::render records into the encoder it is given
DepthViewRender(dv, encoder) ==
  Append(encoder,
    [label |-> "Depth View Render Pass",
     load |-> "Load",
     clear_color |-> "None",
     depth_stencil_attachment |-> "None",
     bind_groups |-> <<"depth_texture_bind_group">>,
     depth_read |-> dv.depth_texture_bind_group.texture,
     draw |-> [indexed |-> FALSE, count |-> OverlayVertices, instances |-> 1]])

\* the owner's call of the overlay between the main pass and the submission
RecordOverlay(encoder) ==
  IF depth_view.tag = "Enabled" THEN DepthViewRender(depth_view, encoder) ELSE encoder

\* what one call did: the passes recorded, the command buffers submitted, and
\* the order of the queue and surface calls
NoFrame == [encoder |-> <<>>, submitted |-> <<>>, calls |-> <<>>]

\* op: the call; arg, event: its input; acquire: how get_current_texture ended;
\* result: what the call returned; configured: whether it called surface.configure;
\* repeat: a render call that follows a render call with no other call of State between;
\* forwarded: whether the call handed its event to camera.controller.process_events
Effect(op, arg, event, acquire, result, configured, frame, repeat) ==
  [op |-> op, arg |-> arg, event |-> event, acquire |-> acquire, result |-> result,
   configured |-> configured, frame |-> frame, repeat |-> repeat, forwarded |-> FALSE]

\* a call other than render
Call(op, arg, event, result, configured) ==
  Effect(op, arg, event, "None", result, configured, NoFrame, FALSE)

\* the owner's construction of the components State (state.rs) does not hold:
\* the rotation animator, the depth texture at the configured size, and the
\* overlay built from it
NewComponents(cfg) ==
  /\ rotation = RotationNew
  /\ instances = InstancesNew
  /\ depth_texture = CreateDepthTexture(0, cfg)
  /\ depth_view = DepthViewNew(CreateDepthTexture(0, cfg))

\* the owner's update of the rotation animator, once per update()
UpdateRotation == rotation' = RotationUpdate(rotation)

(***************************************************************************)
(* State::new                                                              *)
(***************************************************************************)
Init ==
  \E s \in InitSizes :
    /\ size = s
    /\ config = [width |-> s[1], height |-> s[2]]
    /\ surface = [width |-> s[1], height |-> s[2]]
    /\ background_color = position_to_color(0, 0)
    /\ camera = CameraNew
    /\ NewComponents([width |-> s[1], height |-> s[2]])
    /\ updates = 0
    /\ last_cursor = <<0, 0>>
    /\ pc = "idle"
    /\ last = Call("new", s, NoEvent, "None", TRUE)

(***************************************************************************)
(* State::resize                                                           *)
(***************************************************************************)
\* a guard that lets one zero dimension through
ResizeAcceptsEitherPositive(w, h) == w > 0 \/ h > 0

ResizeAccepts(w, h) == w > 0 /\ h > 0

\* a resize that updates size and config but leaves out surface.configure
ResizeWithoutConfigure(w, h) ==
  /\ pc = "idle"
  /\ IF ResizeAccepts(w, h)
     THEN /\ size' = <<w, h>>
          /\ config' = [config EXCEPT !.width = w, !.height = h]
          /\ UNCHANGED surface
          /\ RecreateDepthBuffer([width |-> w, height |-> h])
          /\ last' = Call("resize", <<w, h>>, NoEvent, "None", FALSE)
     ELSE /\ UNCHANGED <<size, config, surface, depth_texture, depth_view>>
          /\ last' = Call("resize", <<w, h>>, NoEvent, "None", FALSE)
  /\ UNCHANGED <<background_color, camera, rotation, instances, updates, last_cursor, pc>>

Resize(w, h) ==
  /\ pc = "idle"
  /\ UNCHANGED <<instances, last_cursor>>
  /\ IF ResizeAccepts(w, h)
     THEN /\ size' = <<w, h>>
          /\ config' = [config EXCEPT !.width = w, !.height = h]
          /\ surface' = [width |-> w, height |-> h]
          /\ RecreateDepthBuffer([width |-> w, height |-> h])
          /\ last' = Call("resize", <<w, h>>, NoEvent, "None", TRUE)
     ELSE /\ UNCHANGED <<size, config, surface, depth_texture, depth_view>>
          /\ last' = Call("resize", <<w, h>>, NoEvent, "None", FALSE)
  /\ UNCHANGED <<background_color, camera, rotation, updates, pc>>

(***************************************************************************)
(* State::input                                                            *)
(***************************************************************************)
\* what input returns and whether it went through the camera controller
InputCall(event, consumed, forwarded) ==
  [Call("input", <<>>, event, IF consumed THEN "true" ELSE "false", FALSE)
     EXCEPT !.forwarded = forwarded]

\* an input that hands every event, cursor moves included, to the camera controller
InputForwardsAll(event) ==
  /\ pc = "idle"
  /\ UNCHANGED instances
  /\ last_cursor' = IF event.kind = "CursorMoved" THEN <<event.x, event.y>> ELSE last_cursor
  /\ LET r == process_events(camera.controller, event)
     IN /\ camera' = [camera EXCEPT !.controller = r[1]]
        /\ background_color' = IF event.kind = "CursorMoved"
                               THEN position_to_color(event.x, event.y)
                               ELSE background_color
        /\ last' = InputCall(event, r[2], TRUE)
  /\ UNCHANGED <<size, config, surface, rotation, depth_texture, depth_view, updates, pc>>

Input(event) ==
  /\ pc = "idle"
  /\ UNCHANGED instances
  /\ last_cursor' = IF event.kind = "CursorMoved" THEN <<event.x, event.y>> ELSE last_cursor
  /\ IF event.kind = "CursorMoved"
     THEN /\ background_color' = position_to_color(event.x, event.y)
          /\ UNCHANGED camera
          /\ last' = InputCall(event, TRUE, FALSE)
     ELSE LET r == process_events(camera.controller, event)
          IN /\ camera' = [camera EXCEPT !.controller = r[1]]
             /\ UNCHANGED background_color
             /\ last' = InputCall(event, r[2], TRUE)
  /\ UNCHANGED <<size, config, surface, rotation, depth_texture, depth_view, updates, pc>>

(***************************************************************************)
(* State::update                                                           *)
(***************************************************************************)
Update ==
  /\ pc = "idle"
  /\ UNCHANGED <<instances, last_cursor>>
  /\ updates < MaxUpdates
  /\ camera' = CameraUpdate(camera)
  /\ UpdateRotation
  /\ updates' = updates + 1
  /\ last' = Call("update", <<>>, NoEvent, "None", FALSE)
  /\ UNCHANGED <<size, config, surface, background_color, depth_texture, depth_view, pc>>

(***************************************************************************)
(* State::render                                                           *)
(***************************************************************************)
\* a render that goes on recording after a failed acquisition
RenderFrameIgnoringFailure(outcome) ==
  LET encoder == RecordOverlay(<<MainPass>>)
  IN [encoder |-> encoder, submitted |-> <<encoder>>, calls |-> <<"submit", "present">>]

\* the frame of a render call whose acquisition ended with `outcome`
RenderFrame(outcome) ==
  IF outcome # "Ok"
  THEN NoFrame
  ELSE LET encoder == RecordOverlay(<<MainPass>>)
       IN [encoder |-> encoder,
           submitted |-> <<encoder>>,
           calls |-> <<"submit", "present">>]

\* a render that swallows the acquisition error
RenderResultSwallowed(outcome) == "Ok"

\* get_current_texture()? hands an error to the caller; otherwise Ok(()) ends the call
RenderResult(outcome) == IF outcome # "Ok" THEN outcome ELSE "Ok"

\* a render that also advances the animators
RenderAdvancingAnimators ==
  /\ pc = "idle"
  /\ UNCHANGED <<instances, last_cursor>>
  /\ \E outcome \in AcquireOutcomes :
       /\ last' = Effect("render", <<>>, NoEvent, outcome, outcome, FALSE,
                         NoFrame, last.op \in {"render", "recover"})
       /\ pc' = IF outcome = "Ok" THEN "idle" ELSE "render_failed"
  /\ camera' = CameraUpdate(camera)
  /\ UpdateRotation
  /\ UNCHANGED <<size, config, surface, background_color,
                 depth_texture, depth_view, updates>>

Render ==
  /\ pc = "idle"
  /\ UNCHANGED <<instances, last_cursor>>
  /\ \E outcome \in AcquireOutcomes :
       /\ last' = Effect("render", <<>>, NoEvent, outcome, RenderResult(outcome), FALSE,
                         RenderFrame(outcome), last.op \in {"render", "recover"})
       /\ pc' = IF RenderResult(outcome) = "Ok" THEN "idle" ELSE "render_failed"
  /\ UNCHANGED <<size, config, surface, background_color, camera, rotation,
                 depth_texture, depth_view, updates>>

(***************************************************************************)
(* The host's handling of a failed render.                                 *)
(***************************************************************************)
HandleRenderError ==
  /\ pc = "render_failed"
  /\ UNCHANGED <<instances, last_cursor>>
  /\ IF last.result \in {"Lost", "Outdated"}
     THEN /\ surface' = [width |-> config.width, height |-> config.height]
          /\ last' = Call("recover", <<>>, NoEvent, last.result, TRUE)
          /\ pc' = "idle"
     ELSE /\ UNCHANGED surface
          /\ last' = Call("recover", <<>>, NoEvent, last.result, FALSE)
          /\ pc' = IF last.result = "OutOfMemory" THEN "exited" ELSE "idle"
  /\ UNCHANGED <<size, config, background_color, camera, rotation,
                 depth_texture, depth_view, updates>>

Next ==
  \/ \E w \in Dims, h \in Dims : Resize(w, h)
  \/ \E event \in WindowEvents : Input(event)
  \/ Update
  \/ Render
  \/ HandleRenderError

Spec == Init /\ [][Next]_vars

(***************************************************************************)
(* Properties.                                                             *)
(***************************************************************************)
ConfigDims == <<config.width, config.height>>

IsResizeWith(l, w, h) == l.op = "resize" /\ l.arg = <<w, h>>

\* C1: a resize call with width = 0 or height = 0 leaves size, config.width and
\* config.height as they were and does not call surface.configure.
C1_ZeroResizeIsNoOp ==
  [][(last'.op = "resize" /\ (last'.arg[1] = 0 \/ last'.arg[2] = 0))
       => (size' = size /\ config' = config /\ surface' = surface
           /\ ~last'.configured)]_vars

C1_Witness ==
  /\ last.op = "resize"
  /\ last.arg[1] = 0 /\ last.arg[2] > 0
  /\ ~last.configured
  /\ ConfigDims = size

\* C2: a resize call with width > 8192 or height > 8192 leaves the
\* SurfaceConfiguration's width and height as they were and does not call
\* surface.configure.
C2_OverBoundResizeIsNoOp ==
  [][(last'.op = "resize" /\ (last'.arg[1] > 8192 \/ last'.arg[2] > 8192))
       => (config' = config /\ surface' = surface /\ ~last'.configured)]_vars

\* C3: the SurfaceConfiguration's width and height are those of the last accepted
\* resize request (the window's size at construction before any), and both lie
\* in (0, 8192]: they change only in a resize call, to what it asked for, and
\* never leave the range.
C3_ConfigIsLastAcceptedRequestInRange ==
  [][/\ config'.width \in 1..8192
     /\ config'.height \in 1..8192
     /\ (config' # config)
          => (last'.op = "resize" /\ <<config'.width, config'.height>> = last'.arg)
     /\ (last'.op = "resize" /\ last'.arg[1] \in 1..8192 /\ last'.arg[2] \in 1..8192)
          => <<config'.width, config'.height>> = last'.arg]_vars

\* C4: a render call whose acquisition fails with Lost or Outdated records,
\* submits and presents nothing and does not itself touch the surface; its
\* caller then configures the surface again with the unchanged
\* SurfaceConfiguration, after which render can be called again.
C4_LostOrOutdatedRecovers ==
  [][/\ (last'.op = "render" /\ last'.acquire \in {"Lost", "Outdated"})
          => /\ last'.frame = NoFrame
             /\ ~last'.configured
             /\ last'.result = last'.acquire
             /\ pc' = "render_failed"
     /\ (pc = "render_failed" /\ last.result \in {"Lost", "Outdated"})
          => /\ last'.op = "recover"
             /\ last'.configured
             /\ config' = config
             /\ surface' = [width |-> config.width, height |-> config.height]
             /\ last'.frame = NoFrame
             /\ pc' = "idle"]_vars

C4_Witness ==
  /\ last.op = "recover"
  /\ last.result = "Lost"
  /\ last.configured
  /\ pc = "idle"
  /\ ENABLED Render

\* C5: a render call whose acquisition fails with Timeout or OutOfMemory returns
\* that error, does not configure the surface, and records, submits and presents
\* nothing.
C5_TimeoutOrOutOfMemoryIsReturned ==
  [][(last'.op = "render" /\ last'.acquire \in {"Timeout", "OutOfMemory"})
       => /\ last'.result = last'.acquire
          /\ ~last'.configured
          /\ surface' = surface
          /\ config' = config
          /\ last'.frame = NoFrame]_vars

C5_Witness ==
  /\ last.op = "render"
  /\ last.acquire = "OutOfMemory"
  /\ last.result = "OutOfMemory"
  /\ last.frame = NoFrame

\* C6: a render call whose acquisition succeeds returns Ok(()) having recorded
\* exactly two passes into one encoder, the main pass (colour clear, depth
\* clear) before the overlay pass (colour load, no depth attachment), then
\* submitted the one command buffer holding both, then presented once.
C6_TwoPassesOneSubmitOnePresent ==
  (last.op = "render" /\ last.acquire = "Ok")
    => /\ last.result = "Ok"
       /\ Len(last.frame.encoder) = 2
       /\ last.frame.encoder[1].label = "Render Pass"
       /\ last.frame.encoder[1].load = "Clear"
       /\ last.frame.encoder[1].depth_stencil_attachment = "Clear"
       /\ last.frame.encoder[2].label = "Depth View Render Pass"
       /\ last.frame.encoder[2].load = "Load"
       /\ last.frame.encoder[2].depth_stencil_attachment = "None"
       /\ last.frame.submitted = <<last.frame.encoder>>
       /\ last.frame.calls = <<"submit", "present">>

RECURSIVE Power(_, _)
Power(m, k) == IF k = 0 THEN Identity ELSE MatMul(Power(m, k - 1), m)

\* C9: after k calls of update the accumulated rotation is step^k (the identity
\* for k = 0), and the step is the one set at construction.
C9_RotationIsStepPower ==
  /\ rotation.rotation = Power(RotationStep, updates)
  /\ rotation.step = RotationStep

C9_Witness ==
  /\ updates = 2
  /\ rotation.rotation = MatMul(RotationStep, RotationStep)
  /\ last.op # "update"

\* C10: a render call, successful or not, leaves the rotation animator (matrix,
\* uniform copy, buffer contents) and the camera (state, uniform, buffer
\* contents) as they were.
C10_RenderLeavesAnimators ==
  [][last'.op = "render" => (rotation' = rotation /\ camera' = camera)]_vars

C10_Witness ==
  /\ last.op = "render"
  /\ last.repeat
  /\ updates > 0
  /\ camera.eye > 0

\* C11: input of CursorMoved returns true, sets the background colour and
\* changes nothing else, the camera controller not being called; input of any
\* other event hands it to the camera controller, returns the controller's
\* consumed flag and leaves the background colour as it was.
C11_InputDispatch ==
  [][last'.op = "input"
       => /\ UNCHANGED <<size, config, surface, rotation, depth_texture, depth_view,
                         instances, updates, pc>>
          /\ IF last'.event.kind = "CursorMoved"
             THEN /\ last'.result = "true"
                  /\ ~last'.forwarded
                  /\ camera' = camera
                  /\ background_color' = position_to_color(last'.event.x, last'.event.y)
             ELSE /\ last'.forwarded
                  /\ last'.result =
                       (IF process_events(camera.controller, last'.event)[2]
                        THEN "true" ELSE "false")
                  /\ camera' = [camera EXCEPT
                         !.controller = process_events(camera.controller, last'.event)[1]]
                  /\ background_color' = background_color]_vars

C11_Witness ==
  /\ last.op = "input"
  /\ last.event.kind = "Focused"
  /\ last.forwarded
  /\ last.result = "false"
  /\ background_color = position_to_color(64, 192)
  /\ camera.controller.is_forward_pressed

\* C12: Instances::new yields exactly (4 + 1) * 4 = 20 transforms, the one at
\* row i in 0..4 and column j in 0..3 at place 4 i + j (row-major), each the
\* pure translation by ((j - 2) * 2, (i - 2) * 2, 0); count() is 20, the length
\* of that sequence.
C12_InstanceGrid ==
  /\ Len(instances.transformations) = 20
  /\ count(instances) = 20
  /\ \A i \in 0..4 : \A j \in 0..3 :
       instances.transformations[4 * i + j + 1]
         = <<[translation |-> <<(j - 2) * 2, (i - 2) * 2, 0>>]>>

C12_Witness ==
  /\ count(instances) = 20
  /\ instances.transformations[1] = <<[translation |-> <<-4, -4, 0>>]>>
  /\ instances.transformations[20] = <<[translation |-> <<2, 4, 0>>]>>
  /\ last.op = "render" /\ last.result = "Ok"

\* C13: the main pass of a successful render binds four bind groups, slot 0 the
\* diffuse texture and sampler, 1 the camera uniform, 2 the rotation uniform,
\* 3 the instance transforms, and issues one indexed draw over all num_indices
\* indices and the instances 0..count().
C13_FourBindGroupsInstancedDraw ==
  (last.op = "render" /\ last.result = "Ok")
    => /\ last.frame.encoder[1].bind_groups
            = <<"diffuse_bind_group", "camera_bind_group",
                "rotator_bind_group", "instances_bind_group">>
       /\ last.frame.encoder[1].draw
            = [indexed |-> TRUE, count |-> NumIndices, instances |-> count(instances)]

\* C14: the background colour is position_to_color of the most recent
\* CursorMoved event (of (0, 0) before any), whatever update, resize, render
\* and other input calls came since, and the main pass of a successful render
\* clears to it.
C14_ClearColorFollowsCursor ==
  /\ background_color = position_to_color(last_cursor[1], last_cursor[2])
  /\ (last.op = "render" /\ last.result = "Ok")
       => /\ last.frame.encoder[1].load = "Clear"
          /\ last.frame.encoder[1].clear_color
               = position_to_color(last_cursor[1], last_cursor[2])

C14_Witness ==
  /\ last.op = "render" /\ last.result = "Ok" /\ last.repeat
  /\ last_cursor = <<64, 192>>
  /\ last.frame.encoder[1].clear_color = [r |-> 1, g |-> 0, b |-> 0, a |-> 2]
  /\ updates > 0
  /\ depth_texture.id # 0

\* C15: the contents of the rotation animator's uniform buffer are the current
\* accumulated rotation, as is the stored rotation_uniform (the identity before
\* any update), and the buffer and the bind group are the objects new created.
C15_RotationUniformMirrorsRotation ==
  /\ rotation.buffer = PodMatrix(rotation.rotation)
  /\ rotation.rotation_uniform = PodMatrix(rotation.rotation)
  /\ updates = 0 => rotation.buffer = PodMatrix(Identity)
  /\ rotation.buffer_object = RotationNew.buffer_object
  /\ rotation.bind_group = RotationNew.bind_group

C15_Witness ==
  /\ last.op = "update"
  /\ updates = 2
  /\ rotation.buffer = PodMatrix(MatMul(RotationStep, RotationStep))
  /\ rotation.buffer_object = "Rotator Buffer"

\* C16: size is (config.width, config.height) and the surface was last
\* configured with config's width and height: a change of config comes with
\* surface.configure in the same call, a change of size with the same change
\* of config.
C16_SizeConfigSurfaceAgree ==
  /\ size = <<config.width, config.height>>
  /\ surface = [width |-> config.width, height |-> config.height]

C16_Witness ==
  /\ last.op = "resize"
  /\ last.configured
  /\ size = <<800, 800>>
  /\ surface = [width |-> 800, height |-> 800]

====
